---- MODULE Spec2Model ----
(***************************************************************************)
(* wm-ssh (src/wm_ssh/cli.py): the cache files, the three resolvers and    *)
(* the wm_ssh command, which tries ssh on the literal input, recovers from *)
(* a changed host key, walks the resolver chain and launches ssh on the    *)
(* resolved name.                                                          *)
(*                                                                         *)
(* Text is a sequence of one-character strings; "\n" is the newline.       *)
(* An optional value (str | None) is a record [some, val].                 *)
(***************************************************************************)
EXTENDS Integers, Sequences, FiniteSets, TLC

VARIABLES
    pc,            \* position of wm_ssh: start, direct, retry, chain, check, resolved, done
    argv,          \* the command line: [hostname, sshargs, no_caches, flush_caches]
    netbox_config, \* whether load_config_file found a netbox config
    files,         \* the four cache files: name -> [exists, text]
    trustStore,    \* hostnames with an entry in ~/.ssh/known_hosts
    user,          \* the part of the argument before "@" (Option)
    hostname,      \* the part of the argument after "@"
    resolvers,     \* the chain built by wm_ssh: sequence of [kind, cachefile]
    idx,           \* index of the next resolver of the chain
    full_hostname, \* the local of wm_ssh: [bound, some, val]
    launches,      \* every ssh started by _do_ssh: [target, args, rc, stderr]
    calls,         \* every get_host made by the chain
    confirms,      \* every click.confirm: [prompt, answer]
    outcome,       \* how the invocation ended
    exitCode,      \* the status the process exits with (-1 while running)
    lone_resolver, \* a resolver driven on its own: [kind, owned]
    cachefile,     \* a CacheFile driven on its own: [exists, text]
    history,       \* the calls made on that resolver, cache file or Tee
    captured_stream, \* Tee.captured_stream, as its length
    stream         \* the characters Tee.write passed on to the wrapped stream

wmVars == <<pc, argv, netbox_config, files, trustStore, user, hostname, resolvers,
            idx, full_hostname, launches, calls, confirms, outcome, exitCode>>

unitVars == <<lone_resolver, cachefile, history, captured_stream, stream>>

vars == <<wmVars, unitVars>>

----------------------------------------------------------------------------
(* Bounds and input sets *)

MaxRc == 2

\* calls made on a cache file driven on its own
MaxOps == 3
\* get_host calls made on one resolver
MaxCalls == 2
\* Tee.write calls made on one Tee
MaxWrites == 3
\* ssh launches of one try_ssh call that the launch log keeps
MaxLaunches == 3

NL == "\n"

None == [some |-> FALSE, val |-> <<>>]
Some(v) == [some |-> TRUE, val |-> v]

\* Python truthiness of a str | None
Truthy(o) == o.some /\ o.val # <<>>

NoFile == [exists |-> FALSE, text |-> <<>>]
File(t) == [exists |-> TRUE, text |-> t]

----------------------------------------------------------------------------
(* str helpers *)

RECURSIVE FindChar(_, _, _)
\* index of the first c in t at or after i, 0 when there is none
FindChar(t, c, i) ==
    IF i > Len(t) THEN 0
    ELSE IF t[i] = c THEN i
    ELSE FindChar(t, c, i + 1)

RECURSIVE splitlines(_)
splitlines(t) ==
    IF t = <<>> THEN <<>>
    ELSE LET i == FindChar(t, NL, 1) IN
         IF i = 0 THEN <<t>>
         ELSE <<SubSeq(t, 1, i - 1)>> \o splitlines(SubSeq(t, i + 1, Len(t)))

startswith(s, p) ==
    /\ Len(p) <= Len(s)
    /\ SubSeq(s, 1, Len(p)) = p

RECURSIVE join(_, _)
join(sep, ls) ==
    IF ls = <<>> THEN <<>>
    ELSE IF Len(ls) = 1 THEN ls[1]
    ELSE ls[1] \o sep \o join(sep, Tail(ls))

\* s.split(c, 1)[0]
split_first(s, c) ==
    LET i == FindChar(s, c, 1) IN
    IF i = 0 THEN s ELSE SubSeq(s, 1, i - 1)

\* s.split(c, 1)[1], for s holding c
split_rest(s, c) ==
    LET i == FindChar(s, c, 1) IN SubSeq(s, i + 1, Len(s))

IsSpace(c) == c \in {" ", NL}

RECURSIVE lstrip(_)
lstrip(s) == IF s # <<>> /\ IsSpace(s[1]) THEN lstrip(Tail(s)) ELSE s

RECURSIVE rstrip(_)
rstrip(s) ==
    IF s # <<>> /\ IsSpace(s[Len(s)]) THEN rstrip(SubSeq(s, 1, Len(s) - 1)) ELSE s

strip(s) == rstrip(lstrip(s))

----------------------------------------------------------------------------
(* CacheFile *)

RECURSIVE last_startswith(_, _)
\* a scan that keeps the last line that starts with partial_host
last_startswith(all_hosts, partial_host) ==
    IF all_hosts = <<>> THEN None
    ELSE LET later == last_startswith(Tail(all_hosts), partial_host) IN
         IF later.some THEN later
         ELSE IF startswith(all_hosts[1], partial_host) THEN Some(all_hosts[1])
         ELSE None

RECURSIVE first_startswith(_, _)
\* the loop of search_host: the first line that starts with partial_host
first_startswith(all_hosts, partial_host) ==
    IF all_hosts = <<>> THEN None
    ELSE IF startswith(all_hosts[1], partial_host) THEN Some(all_hosts[1])
    ELSE first_startswith(Tail(all_hosts), partial_host)

search_host(f, partial_host) ==
    IF f.exists THEN first_startswith(splitlines(f.text), partial_host)
    ELSE None

\* an add_host that never writes
add_host_skips(f, full_name) == f

add_host(f, full_name) ==
    IF Truthy(search_host(f, full_name)) THEN f
    ELSE File(f.text \o full_name \o <<NL>>)

replace_content(f, new_content) == File(new_content)

RECURSIVE str_remove(_, _)
\* t.replace(old, ""), old not empty: every occurrence, left to right
str_remove(t, old) ==
    IF Len(t) < Len(old) THEN t
    ELSE IF SubSeq(t, 1, Len(old)) = old
    THEN str_remove(SubSeq(t, Len(old) + 1, Len(t)), old)
    ELSE <<t[1]>> \o str_remove(Tail(t), old)

\* [raised, file]: open() of a missing file raises FileNotFoundError
remove_host(f, full_name) ==
    IF ~f.exists THEN [raised |-> TRUE, file |-> f]
    ELSE [raised |-> FALSE, file |-> File(str_remove(f.text, full_name \o <<NL>>))]

----------------------------------------------------------------------------
(* Resolvers.  A resolver's cache is [owned, file]; a get_host returns      *)
(* [raised, res, file] with the file as the call leaves it.                 *)

NoCache == [owned |-> FALSE, file |-> NoFile]
Owned(f) == [owned |-> TRUE, file |-> f]

Returned(res, f) == [raised |-> FALSE, res |-> res, file |-> f]
Raised(f) == [raised |-> TRUE, res |-> None, file |-> f]

WmnetSuffix == <<".", "w", "m", "n", "e", "t">>

\* [raised, res]
get_fqdn(device) ==
    IF device.primary_ip.present /\ ~device.primary_ip.ok
    THEN [raised |-> TRUE, res |-> None]
    ELSE IF device.primary_ip.present /\ device.primary_ip.dns_name # <<>>
    THEN [raised |-> FALSE, res |-> Some(device.primary_ip.dns_name)]
    ELSE [raised |-> FALSE,
          res |-> Some(device.name \o <<".">> \o device.slug \o WmnetSuffix)]

RECURSIVE first_fqdn(_)
\* the loop shared by get_physical and get_vm
first_fqdn(infos) ==
    IF infos = <<>> THEN [raised |-> FALSE, res |-> None]
    ELSE LET fqdn == get_fqdn(infos[1]) IN
         IF fqdn.raised THEN fqdn
         ELSE IF Truthy(fqdn.res) THEN fqdn
         ELSE first_fqdn(Tail(infos))

get_physical(response) ==
    IF ~response.ok THEN [raised |-> TRUE, res |-> None]
    ELSE first_fqdn(response.results)

get_vm(response) ==
    IF ~response.ok THEN [raised |-> TRUE, res |-> None]
    ELSE first_fqdn(response.results)

\* get_host that asks the virtual-machine endpoint whatever get_physical found
NetboxResolver_get_host_both(cache, partial, physResponse, vmResponse) ==
    LET maybe_host == IF cache.owned THEN search_host(cache.file, partial) ELSE None
        phys == get_physical(physResponse)
        vm == get_vm(vmResponse)
        found == IF Truthy(phys.res) THEN phys.res ELSE vm.res
        base == [raised |-> FALSE, res |-> None, file |-> cache.file,
                 physical |-> 0, vm |-> 0, physRes |-> None]
    IN  IF cache.owned /\ Truthy(maybe_host)
        THEN [base EXCEPT !.res = maybe_host]
        ELSE IF phys.raised
        THEN [base EXCEPT !.raised = TRUE, !.physical = 1]
        ELSE IF vm.raised
        THEN [base EXCEPT !.raised = TRUE, !.physical = 1, !.vm = 1,
                          !.physRes = phys.res]
        ELSE [base EXCEPT !.res = found, !.physical = 1, !.vm = 1,
                          !.physRes = phys.res,
                          !.file = IF cache.owned /\ Truthy(found)
                                   THEN add_host(cache.file, found.val)
                                   ELSE cache.file]

\* get_host that asks Netbox without looking at the cache first
NetboxResolver_get_host_ignores_cache(cache, partial, physResponse, vmResponse) ==
    LET phys == get_physical(physResponse)
        vm == get_vm(vmResponse)
        base == [raised |-> FALSE, res |-> None, file |-> cache.file,
                 physical |-> 0, vm |-> 0, physRes |-> None]
    IN  IF phys.raised
        THEN [base EXCEPT !.raised = TRUE, !.physical = 1]
        ELSE IF Truthy(phys.res)
        THEN [base EXCEPT !.res = phys.res, !.physical = 1, !.physRes = phys.res,
                          !.file = IF cache.owned
                                   THEN add_host(cache.file, phys.res.val)
                                   ELSE cache.file]
        ELSE IF vm.raised
        THEN [base EXCEPT !.raised = TRUE, !.physical = 1, !.vm = 1]
        ELSE [base EXCEPT !.res = vm.res, !.physical = 1, !.vm = 1,
                          !.file = IF cache.owned /\ Truthy(vm.res)
                                   THEN add_host(cache.file, vm.res.val)
                                   ELSE cache.file]

\* NetboxResolver.get_host; physical and vm count the requests it made
NetboxResolver_get_host(cache, partial, physResponse, vmResponse) ==
    LET maybe_host == IF cache.owned THEN search_host(cache.file, partial) ELSE None
        phys == get_physical(physResponse)
        vm == get_vm(vmResponse)
        base == [raised |-> FALSE, res |-> None, file |-> cache.file,
                 physical |-> 0, vm |-> 0, physRes |-> None]
    IN  IF cache.owned /\ Truthy(maybe_host)
        THEN [base EXCEPT !.res = maybe_host]
        ELSE IF phys.raised
        THEN [base EXCEPT !.raised = TRUE, !.physical = 1]
        ELSE IF Truthy(phys.res)
        THEN [base EXCEPT !.res = phys.res, !.physical = 1, !.physRes = phys.res,
                          !.file = IF cache.owned
                                   THEN add_host(cache.file, phys.res.val)
                                   ELSE cache.file]
        ELSE IF vm.raised
        THEN [base EXCEPT !.raised = TRUE, !.physical = 1, !.vm = 1]
        ELSE [base EXCEPT !.res = vm.res, !.physical = 1, !.vm = 1,
                          !.file = IF cache.owned /\ Truthy(vm.res)
                                   THEN add_host(cache.file, vm.res.val)
                                   ELSE cache.file]

RECURSIVE first_nonempty_startswith(_, _)
\* the in-memory scan of the two snapshot resolvers
first_nonempty_startswith(ls, partial) ==
    IF ls = <<>> THEN None
    ELSE IF ls[1] # <<>> /\ startswith(ls[1], partial) THEN Some(strip(ls[1]))
    ELSE first_nonempty_startswith(Tail(ls), partial)

OpenstackBrowserResolver_get_host(cache, partial, response) ==
    LET maybe_vm == IF cache.owned THEN search_host(cache.file, partial) ELSE None
        snapshot == replace_content(cache.file, response.text)
    IN  IF cache.owned /\ Truthy(maybe_vm) THEN Returned(maybe_vm, cache.file)
        ELSE IF ~response.ok THEN Raised(cache.file)
        ELSE IF cache.owned THEN Returned(search_host(snapshot, partial), snapshot)
        ELSE Returned(first_nonempty_startswith(splitlines(response.text), partial),
                      cache.file)

\* [host_line.split(",", 1)[0] for host_line in text.splitlines()]
clean_hosts(text) ==
    LET ls == splitlines(text) IN
    [i \in 1..Len(ls) |-> split_first(ls[i], ",")]

KnownHostsResolver_get_host(cache, partial, response) ==
    LET maybe_known_host ==
            IF cache.owned THEN search_host(cache.file, partial) ELSE None
        hosts == clean_hosts(response.text)
        snapshot == replace_content(cache.file, join(<<NL>>, hosts))
    IN  IF cache.owned /\ Truthy(maybe_known_host)
        THEN Returned(maybe_known_host, cache.file)
        ELSE IF ~response.ok THEN Raised(cache.file)
        ELSE IF cache.owned THEN Returned(search_host(snapshot, partial), snapshot)
        ELSE Returned(first_nonempty_startswith(hosts, partial), cache.file)

----------------------------------------------------------------------------
(* The environment of one invocation: what the operator types, what the    *)
(* cache directory holds, what ssh and the three sources answer.           *)

H_a == <<"a">>
H_ab == <<"a", "b">>
H_ac == <<"a", "c">>
H_u == <<"u">>

CacheNames == {"known_hosts", "netbox", "openstackbrowser", "direct"}

\* the HOSTNAME argument: missing, a partial name, or user@name
HostnameArgs ==
    {None, Some(H_a), Some(H_ab), Some(H_u \o <<"@">> \o H_a),
     Some(H_u \o <<"@">> \o H_ab)}

SshArgs == {<<>>, <<"-v">>}

InitialCache == {NoFile, File(H_ab \o <<NL>>)}

KEY_CHANGED == "WARNING: REMOTE HOST IDENTIFICATION HAS CHANGED"
RESOLVE_MARKERS ==
    {"Could not resolve hostname", "Name or service not known", "No route to host"}

\* the markers the captured stderr of a failed ssh contains
StderrChoices ==
    {{}, {KEY_CHANGED}, {"Could not resolve hostname", "Name or service not known"},
     {"No route to host"}}

SshResults ==
    {[rc |-> 0, stderr |-> {}]}
    \cup {[rc |-> r, stderr |-> e] : r \in 1..MaxRc, e \in StderrChoices}

Failed == [ok |-> FALSE, text |-> <<>>]
Body(t) == [ok |-> TRUE, text |-> t]

KnownHostsResponses ==
    {Failed, Body(<<>>), Body(H_ab \o <<",", "x", " ", "k", NL>>)}

OpenstackResponses ==
    {Failed, Body(<<>>), Body(H_ac \o <<NL>> \o H_ab \o <<NL>>)}

NoIp == [present |-> FALSE, ok |-> TRUE, dns_name |-> <<>>]
Ip(dns) == [present |-> TRUE, ok |-> TRUE, dns_name |-> dns]
IpFailed == [present |-> TRUE, ok |-> FALSE, dns_name |-> <<>>]
Device(n, ip) == [name |-> n, slug |-> <<"s">>, primary_ip |-> ip]

ApiFailed == [ok |-> FALSE, results |-> <<>>]
Results(r) == [ok |-> TRUE, results |-> r]

PhysicalResponses ==
    {ApiFailed, Results(<<>>), Results(<<Device(H_a, NoIp)>>),
     Results(<<Device(H_a, Ip(H_ab))>>), Results(<<Device(H_a, IpFailed)>>)}

VmResponses ==
    {ApiFailed, Results(<<>>), Results(<<Device(<<"v">>, Ip(<<>>))>>)}

----------------------------------------------------------------------------
(* wm_ssh *)

Unbound == [bound |-> FALSE, some |-> FALSE, val |-> <<>>]
Bound(o) == [bound |-> TRUE, some |-> o.some, val |-> o.val]

\* lines 360-363: the caches --flush-caches empties
flushed_caches == {"netbox", "openstackbrowser", "direct"}

\* lines 371-393: the chain
resolver_list(has_netbox, no_caches) ==
    <<[kind |-> "KnownHosts", owned |-> TRUE, cachefile |-> "known_hosts"]>>
    \o (IF has_netbox
        THEN <<[kind |-> "Netbox", owned |-> ~no_caches, cachefile |-> "netbox"]>>
        ELSE <<>>)
    \o <<[kind |-> "OpenstackBrowser", owned |-> ~no_caches,
          cachefile |-> "openstackbrowser"]>>

\* f"{user}@{hostname}" if user else hostname
ssh_target(u, h) == IF Truthy(u) THEN u.val \o <<"@">> \o h ELSE h

remove_duplicated_key_keeps_entry(stderr, h, answer, store) ==
    IF KEY_CHANGED \notin stderr
    THEN [asked |-> FALSE, removed |-> FALSE, store |-> store]
    ELSE [asked |-> TRUE, removed |-> answer, store |-> store]

\* _remove_duplicated_key_if_needed: [asked, removed, store]
remove_duplicated_key_if_needed(stderr, h, answer, store) ==
    IF KEY_CHANGED \notin stderr
    THEN [asked |-> FALSE, removed |-> FALSE, store |-> store]
    ELSE IF ~answer
    THEN [asked |-> TRUE, removed |-> FALSE, store |-> store]
    ELSE [asked |-> TRUE, removed |-> TRUE, store |-> store \ {h}]

chain_breaks_never(res) == FALSE

chain_breaks_unless_echo(res) == Truthy(res) /\ res.val # hostname

\* line 421: the chain stops on this result
chain_breaks(res) == Truthy(res)

chain_next_propagates(raised, res, i, n) ==
    IF raised THEN "done"
    ELSE IF chain_breaks(res) THEN "check"
    ELSE IF i = n THEN "check"
    ELSE "chain"

\* lines 417-424: where the loop goes after a get_host that raised or returned
\* res, for the i-th of n resolvers; the except clause swallows the exception
chain_next(raised, res, i, n) ==
    IF ~raised /\ chain_breaks(res) THEN "check"
    ELSE IF i = n THEN "check"
    ELSE "chain"

not_found_only_empty(fh, h) == ~Truthy(fh)

\* line 426
not_found(fh, h) == ~Truthy(fh) \/ fh.val = h

Finish(how, code) ==
    /\ pc' = "done"
    /\ outcome' = how
    /\ exitCode' = code

Launch(t, r) ==
    launches' = Append(launches,
        [target |-> t, args |-> argv.sshargs, rc |-> r.rc, stderr |-> r.stderr])

\* nothing but wm_ssh runs: no resolver, cache file or Tee is driven on its own
UnitIdle ==
    /\ lone_resolver = [kind |-> "none", owned |-> FALSE]
    /\ cachefile = NoFile
    /\ history = <<>>
    /\ captured_stream = 0
    /\ stream = 0

Init ==
    /\ UnitIdle
    /\ pc = "start"
    /\ argv \in [hostname : HostnameArgs, sshargs : SshArgs,
                 no_caches : BOOLEAN, flush_caches : BOOLEAN]
    /\ netbox_config \in BOOLEAN
    /\ files \in [CacheNames -> InitialCache]
    /\ files["direct"] = File(H_ab \o <<NL>>)
    /\ trustStore = {H_a, H_ab, H_ac}
    /\ user = None
    /\ hostname = <<>>
    /\ resolvers = <<>>
    /\ idx = 1
    /\ full_hostname = Unbound
    /\ launches = <<>>
    /\ calls = <<>>
    /\ confirms = <<>>
    /\ outcome = "running"
    /\ exitCode = -1

\* lines 355-398: flush, the missing argument, the chain, user@host
Start ==
    /\ pc = "start"
    /\ \E answer \in (IF argv.flush_caches THEN BOOLEAN ELSE {FALSE}) :
        LET flush == argv.flush_caches /\ answer
            missing == ~Truthy(argv.hostname)
            arg == argv.hostname.val
        IN  /\ confirms' = IF argv.flush_caches
                           THEN Append(confirms, [prompt |-> "flush", answer |-> answer])
                           ELSE confirms
            /\ files' = [n \in CacheNames |->
                            IF flush /\ n \in flushed_caches
                            THEN replace_content(files[n], <<>>)
                            ELSE files[n]]
            /\ IF missing
               THEN /\ Finish("no_hostname", IF flush THEN 0 ELSE 1)
                    /\ UNCHANGED <<user, hostname, resolvers>>
               ELSE /\ pc' = "direct"
                    /\ resolvers' = resolver_list(netbox_config, argv.no_caches)
                    /\ user' = IF FindChar(arg, "@", 1) # 0
                               THEN Some(split_first(arg, "@")) ELSE None
                    /\ hostname' = IF FindChar(arg, "@", 1) # 0
                                   THEN split_rest(arg, "@") ELSE arg
                    /\ UNCHANGED <<outcome, exitCode>>
    /\ UNCHANGED <<argv, netbox_config, trustStore, idx, full_hostname, launches, calls>>

\* lines 400-413: the direct attempt and the key-mismatch prompt
DirectAttempt ==
    /\ pc = "direct"
    /\ \E r \in SshResults :
       \E answer \in (IF r.rc # 0 /\ KEY_CHANGED \in r.stderr THEN BOOLEAN ELSE {FALSE}) :
        LET k == remove_duplicated_key_if_needed(r.stderr, hostname, answer, trustStore)
        IN  /\ Launch(ssh_target(user, hostname), r)
            /\ IF r.rc = 0
               THEN /\ Finish("success", 0)
                    /\ UNCHANGED <<trustStore, confirms>>
               ELSE /\ trustStore' = k.store
                    /\ confirms' = IF k.asked
                                   THEN Append(confirms,
                                            [prompt |-> "key", answer |-> answer])
                                   ELSE confirms
                    /\ pc' = IF k.removed THEN "retry" ELSE "chain"
                    /\ UNCHANGED <<outcome, exitCode>>
    /\ UNCHANGED <<argv, netbox_config, files, user, hostname, resolvers, idx,
                   full_hostname, calls>>

\* line 408-409: the retry; its CalledProcessError leaves wm_ssh uncaught
RetryAttempt ==
    /\ pc = "retry"
    /\ \E r \in SshResults :
        /\ Launch(ssh_target(user, hostname), r)
        /\ IF r.rc = 0 THEN Finish("success", 0) ELSE Finish("raised", 1)
    /\ UNCHANGED <<argv, netbox_config, files, trustStore, user, hostname, resolvers,
                   idx, full_hostname, calls, confirms>>

CacheOf(resolver) ==
    IF resolver.owned THEN Owned(files[resolver.cachefile]) ELSE NoCache

\* lines 417-424: one turn of the loop, given what get_host did
ChainTurn(resolver, r, physical, vm, physRes) ==
    /\ calls' = Append(calls,
          [kind |-> resolver.kind, raised |-> r.raised, res |-> r.res,
           physical |-> physical, vm |-> vm, physRes |-> physRes])
    /\ files' = IF resolver.owned
                THEN [files EXCEPT ![resolver.cachefile] = r.file]
                ELSE files
    /\ full_hostname' = IF r.raised THEN full_hostname ELSE Bound(r.res)
    /\ idx' = idx + 1
    /\ pc' = chain_next(r.raised, r.res, idx, Len(resolvers))
    /\ UNCHANGED <<argv, netbox_config, trustStore, user, hostname, resolvers,
                   launches, confirms, outcome, exitCode>>

CallKnownHosts ==
    /\ pc = "chain"
    /\ resolvers[idx].kind = "KnownHosts"
    /\ \E response \in KnownHostsResponses :
        ChainTurn(resolvers[idx],
                  KnownHostsResolver_get_host(CacheOf(resolvers[idx]), hostname, response),
                  0, 0, None)

CallNetbox ==
    /\ pc = "chain"
    /\ resolvers[idx].kind = "Netbox"
    /\ \E physResponse \in PhysicalResponses, vmResponse \in VmResponses :
        LET r == NetboxResolver_get_host(CacheOf(resolvers[idx]), hostname,
                                         physResponse, vmResponse)
        IN  ChainTurn(resolvers[idx], r, r.physical, r.vm, r.physRes)

CallOpenstackBrowser ==
    /\ pc = "chain"
    /\ resolvers[idx].kind = "OpenstackBrowser"
    /\ \E response \in OpenstackResponses :
        ChainTurn(resolvers[idx],
                  OpenstackBrowserResolver_get_host(CacheOf(resolvers[idx]), hostname,
                                                    response),
                  0, 0, None)

\* lines 426-432: a full_hostname no get_host ever bound is an UnboundLocalError
CheckResult ==
    /\ pc = "check"
    /\ IF ~full_hostname.bound THEN Finish("raised", 1)
       ELSE IF not_found(full_hostname, hostname) THEN Finish("unresolved", 1)
       ELSE /\ pc' = "resolved"
            /\ UNCHANGED <<outcome, exitCode>>
    /\ UNCHANGED <<argv, netbox_config, files, trustStore, user, hostname, resolvers,
                   idx, full_hostname, launches, calls, confirms>>

\* lines 435-445
ResolvedAttempt ==
    /\ pc = "resolved"
    /\ \E r \in SshResults :
        /\ Launch(ssh_target(user, full_hostname.val), r)
        /\ IF r.rc = 0 THEN Finish("success", 0) ELSE Finish("ssh_failed", r.rc)
    /\ UNCHANGED <<argv, netbox_config, files, trustStore, user, hostname, resolvers,
                   idx, full_hostname, calls, confirms>>

Next ==
    \/ Start /\ UNCHANGED unitVars
    \/ DirectAttempt /\ UNCHANGED unitVars
    \/ RetryAttempt /\ UNCHANGED unitVars
    \/ CallKnownHosts /\ UNCHANGED unitVars
    \/ CallNetbox /\ UNCHANGED unitVars
    \/ CallOpenstackBrowser /\ UNCHANGED unitVars
    \/ CheckResult /\ UNCHANGED unitVars
    \/ ResolvedAttempt /\ UNCHANGED unitVars

Spec == Init /\ [][Next]_vars

TypeOK ==
    /\ pc \in {"start", "direct", "retry", "chain", "check", "resolved", "done"}
    /\ exitCode \in -1..MaxRc
    /\ idx \in 1..4

----------------------------------------------------------------------------
(* Properties of the resolver chain *)

ExpectedOrder ==
    <<"KnownHosts">> \o (IF netbox_config THEN <<"Netbox">> ELSE <<>>)
    \o <<"OpenstackBrowser">>

Succeeded(c) == ~c.raised /\ Truthy(c.res)

ChainOver == pc \in {"check", "resolved", "done"} /\ calls # <<>>

\* C1: the chain calls get_host in the order KnownHostsResolver, NetboxResolver
\* (only with a netbox_config), OpenstackBrowserResolver, each at most once; the
\* first call that returns a non-empty hostname is the last call made and its
\* result is the result of the chain.
C1_ChainOrderFirstSuccess ==
    /\ Len(calls) <= Len(ExpectedOrder)
    /\ \A i \in 1..Len(calls) :
        /\ calls[i].kind = ExpectedOrder[i]
        /\ Succeeded(calls[i]) =>
            /\ i = Len(calls)
            /\ pc # "chain"
            /\ full_hostname = Bound(calls[i].res)

C1_Witness ==
    /\ pc = "check"
    /\ netbox_config
    /\ Len(calls) = 2
    /\ ~Succeeded(calls[1])
    /\ calls[2].kind = "Netbox"
    /\ Succeeded(calls[2])

\* C2: a get_host that raises does not end the chain: unless the resolver was
\* the last one, the next resolver is invoked (or is about to be), whichever
\* resolvers raised; after the last one the loop is left normally.
C2_RaiseContinues ==
    \A i \in 1..Len(calls) :
        calls[i].raised =>
            IF i < Len(resolvers)
            THEN Len(calls) > i \/ (pc = "chain" /\ idx = i + 1)
            ELSE pc \in {"check", "done"} /\ idx = i + 1

C2_Witness ==
    /\ Len(calls) = 3
    /\ \A i \in 1..3 : calls[i].raised
    /\ pc = "check"

\* C3 as stated: the chain stops at the first non-empty result that differs
\* from the input, and a resolver that returns the input itself does not stop
\* the chain: the resolvers after it are still consulted.
C3_EchoDoesNotStop ==
    \A i \in 1..Len(calls) :
        /\ (Succeeded(calls[i]) /\ calls[i].res.val # hostname) => i = Len(calls)
        /\ (Succeeded(calls[i]) /\ calls[i].res.val = hostname /\ i < Len(resolvers)) =>
            (Len(calls) > i \/ (pc = "chain" /\ idx = i + 1))

\* C3 amended: the chain stops at the first resolver that returns a non-empty
\* hostname, identical to the input or not: after a resolver returned the
\* input itself no later resolver is consulted and the loop is over.
C3_EchoStopsChain ==
    \A i \in 1..Len(calls) :
        (Succeeded(calls[i]) /\ calls[i].res.val = hostname) =>
            /\ Len(calls) = i
            /\ idx = i + 1
            /\ pc \in {"check", "done"}

C3_Witness ==
    /\ pc = "check"
    /\ Len(calls) = 1
    /\ Len(resolvers) = 3
    /\ Succeeded(calls[1])
    /\ calls[1].res.val = hostname

----------------------------------------------------------------------------
(* Properties of the invocation *)

HasConfirm(p, a) ==
    \E i \in 1..Len(confirms) : confirms[i] = [prompt |-> p, answer |-> a]

NamingFailure(l) == l.rc # 0 /\ l.stderr \cap RESOLVE_MARKERS # {}

LastLaunch == launches[Len(launches)]

\* C4: when the direct attempt failed with a naming failure and every get_host
\* of the chain returned none or raised (all of them raising included), the
\* invocation ends as "unresolved" with exit code 1 and no ssh after the
\* direct attempt.
C4_NoSuccessEndsUnresolved ==
    ( /\ pc = "done"
      /\ calls # <<>>
      /\ NamingFailure(launches[1])
      /\ \A i \in 1..Len(calls) : ~Succeeded(calls[i]) ) =>
        /\ outcome = "unresolved"
        /\ exitCode = 1
        /\ Len(launches) = 1

\* C5: a chain result equal to the input hostname is treated as not found: no
\* ssh is launched on it and the invocation exits with code 1.
C5_EchoIsNotFound ==
    (ChainOver /\ Truthy(full_hostname) /\ full_hostname.val = hostname) =>
        /\ pc # "resolved"
        /\ Len(launches) = 1
        /\ pc = "done" => (outcome = "unresolved" /\ exitCode = 1)

C5_Witness ==
    /\ pc = "done"
    /\ calls # <<>>
    /\ Truthy(full_hostname)
    /\ full_hostname.val = hostname
    /\ exitCode = 1

\* C6: no get_host happens before the direct attempt has finished, and the
\* chain is entered only after a direct attempt that exited non-zero with one
\* of the three naming-failure markers in its stderr.
C6_ChainOnlyOnNamingFailure ==
    calls # <<>> =>
        /\ Len(launches) >= 1
        /\ launches[1].target = ssh_target(user, hostname)
        /\ NamingFailure(launches[1])

\* C7: after the operator confirms the key-mismatch prompt the hostname is out
\* of the trust store before the retry is launched, the retry is one launch
\* with the target and arguments of the direct attempt, and whatever it
\* returns no other ssh and no get_host follows.
C7_ConfirmedRetryOnce ==
    HasConfirm("key", TRUE) =>
        /\ hostname \notin trustStore
        /\ calls = <<>>
        /\ pc \in {"retry", "done"}
        /\ pc = "retry" => Len(launches) = 1
        /\ pc = "done" =>
            /\ Len(launches) = 2
            /\ launches[2].target = launches[1].target
            /\ launches[2].args = launches[1].args

C7_Witness ==
    /\ HasConfirm("key", TRUE)
    /\ pc = "done"
    /\ Len(launches) = 2
    /\ launches[2].rc # 0
    /\ launches[2].args # <<>>
    /\ Truthy(user)

\* C8: after the operator declines the key-mismatch prompt the trust store is
\* unchanged, no ssh other than the direct attempt is launched, and the
\* invocation ends in failure.
C8_DeclineIsFatal ==
    HasConfirm("key", FALSE) =>
        /\ hostname \in trustStore
        /\ Len(launches) = 1
        /\ pc = "done" => exitCode # 0

\* C9: an invocation with a hostname exits 0 when its last ssh exited 0, 1
\* when the hostname ended unresolved, and with the exit code of the ssh that
\* failed when a failing ssh (the retry or the resolved attempt) ended it.
C9_ExitCode ==
    (pc = "done" /\ launches # <<>>) =>
        /\ outcome = "unresolved" => exitCode = 1
        /\ (calls = <<>> \/ Len(launches) = 2) => exitCode = LastLaunch.rc

\* C10: in NetboxResolver.get_host, when get_physical returned a hostname,
\* get_physical was called once, get_vm was not called and the hostname is the
\* result; get_vm is called only after get_physical returned nothing.
C10_PhysicalShortCircuits ==
    \A i \in 1..Len(calls) :
        calls[i].kind = "Netbox" =>
            /\ Truthy(calls[i].physRes) =>
                /\ calls[i].physical = 1
                /\ calls[i].vm = 0
                /\ ~calls[i].raised
                /\ calls[i].res = calls[i].physRes
            /\ calls[i].vm > 0 =>
                /\ calls[i].physical = 1
                /\ ~Truthy(calls[i].physRes)

C10_Witness ==
    \E i \in 1..Len(calls) :
        /\ calls[i].kind = "Netbox"
        /\ Truthy(calls[i].physRes)
        /\ calls[i].res.val = H_a \o <<".", "s">> \o WmnetSuffix

\* C15: with --no-caches the caches are ignored for the whole run: every
\* resolver of the chain is built without a cache, and no step of the chain
\* creates, appends to or rewrites a cache file.
C15_NoCachesIgnoresCaches ==
    [][argv.no_caches =>
        /\ \A i \in 1..Len(resolvers') : ~resolvers'[i].owned
        /\ (pc = "chain" => files' = files)]_vars

\* C16: when --flush-caches is given and the operator confirms, every cache
\* file (known_hosts, netbox, openstackbrowser, direct) is empty afterwards;
\* when the operator declines, no cache file is modified.
C16_FlushEmptiesEveryCache ==
    [][(pc = "start" /\ argv.flush_caches) =>
        IF confirms'[Len(confirms')].answer
        THEN \A n \in CacheNames : files'[n].text = <<>>
        ELSE files' = files]_vars

----------------------------------------------------------------------------
(* A CacheFile driven on its own: any sequence of its four methods *)

\* wm_ssh is not running
WmIdle ==
    /\ pc = "idle"
    /\ argv = [hostname |-> None, sshargs |-> <<>>, no_caches |-> FALSE,
               flush_caches |-> FALSE]
    /\ netbox_config = FALSE
    /\ files = [n \in CacheNames |-> NoFile]
    /\ trustStore = {}
    /\ user = None
    /\ hostname = <<>>
    /\ resolvers = <<>>
    /\ idx = 1
    /\ full_hostname = Unbound
    /\ launches = <<>>
    /\ calls = <<>>
    /\ confirms = <<>>
    /\ outcome = "idle"
    /\ exitCode = -1

H_b == <<"b">>

\* the hostnames handed to add_host and remove_host: both are only called
\* with a name that was found (lines 152, 264, 276)
CacheHosts == {H_a, H_ab, H_b}

\* the partial names handed to search_host
CachePartials == CacheHosts \cup {<<>>}

\* the texts handed to replace_content: the flush, a known-hosts snapshot
\* ("\n".join, no final newline) and a listing of two hosts
CacheTexts == {<<>>, H_ab, H_ab \o <<NL>> \o H_ac \o <<NL>>}

CacheOp(name, arg, after, raised, res) ==
    /\ Len(history) < MaxOps
    /\ history' = Append(history,
          [op |-> name, arg |-> arg, before |-> cachefile, after |-> after,
           raised |-> raised, res |-> res])
    /\ cachefile' = after
    /\ UNCHANGED <<wmVars, lone_resolver, captured_stream, stream>>

CacheInit ==
    /\ WmIdle
    /\ lone_resolver = [kind |-> "none", owned |-> FALSE]
    /\ cachefile = NoFile
    /\ history = <<>>
    /\ captured_stream = 0
    /\ stream = 0

SearchHost ==
    \E h \in CachePartials :
        CacheOp("search_host", h, cachefile, FALSE, search_host(cachefile, h))

AddHost ==
    \E h \in CacheHosts :
        CacheOp("add_host", h, add_host(cachefile, h), FALSE, None)

RemoveHost ==
    \E h \in CacheHosts :
        LET r == remove_host(cachefile, h) IN
        CacheOp("remove_host", h, r.file, r.raised, None)

ReplaceContent ==
    \E t \in CacheTexts :
        CacheOp("replace_content", t, replace_content(cachefile, t), FALSE, None)

CacheNext ==
    \/ SearchHost
    \/ AddHost
    \/ RemoveHost
    \/ ReplaceContent

SpecCache == CacheInit /\ [][CacheNext]_vars

----------------------------------------------------------------------------
(* Properties of CacheFile *)

Lines(f) == IF f.exists THEN splitlines(f.text) ELSE <<>>

CountEqual(ls, h) == Cardinality({k \in 1..Len(ls) : ls[k] = h})

IsOp(i, name) == history[i].op = name /\ ~history[i].raised

\* the i-th call repeats the add_host before it
AddedTwice(i) ==
    /\ i > 1
    /\ IsOp(i, "add_host")
    /\ IsOp(i - 1, "add_host")
    /\ history[i].arg = history[i - 1].arg

\* C12: add_host is idempotent: for every store content and every hostname h,
\* adding h twice leaves the content of adding it once, and a store in which
\* search_host finds no h holds exactly one line equal to h after add_host(h).
C12_AddHostIdempotent ==
    \A i \in 1..Len(history) :
        /\ AddedTwice(i) => history[i].after = history[i - 1].after
        /\ (IsOp(i, "add_host") /\ ~search_host(history[i].before, history[i].arg).some)
            => CountEqual(Lines(history[i].after), history[i].arg) = 1

\* C13: search_host returns none when the file does not exist or holds no
\* line, and otherwise the first line, in file order, that starts with the
\* partial name, or none when no line starts with it; the file is unchanged.
C13_SearchFirstPrefix ==
    \A i \in 1..Len(history) :
        IsOp(i, "search_host") =>
            LET ls == Lines(history[i].before)
                p == history[i].arg
                r == history[i].res
            IN  /\ history[i].after = history[i].before
                /\ (~history[i].before.exists \/ history[i].before.text = <<>>)
                    => ~r.some
                /\ r.some =>
                    \E k \in 1..Len(ls) :
                        /\ ls[k] = r.val
                        /\ startswith(ls[k], p)
                        /\ \A j \in 1..(k - 1) : ~startswith(ls[j], p)
                /\ ~r.some => \A k \in 1..Len(ls) : ~startswith(ls[k], p)

C13_Witness ==
    \E i \in 1..Len(history) :
        /\ IsOp(i, "search_host")
        /\ history[i].arg = H_a
        /\ Lines(history[i].before) = <<H_ab, H_ac>>
        /\ history[i].res = Some(H_ab)

RECURSIVE Without(_, _)
\* the lines of ls that differ from h, in order
Without(ls, h) ==
    IF ls = <<>> THEN <<>>
    ELSE IF ls[1] = h THEN Without(Tail(ls), h)
    ELSE <<ls[1]>> \o Without(Tail(ls), h)

\* C14: remove_host(h) removes every line equal to h and nothing else: the
\* lines that differ from h are still there, unchanged and in order.
C14_RemoveExactLines ==
    \A i \in 1..Len(history) :
        IsOp(i, "remove_host") =>
            Lines(history[i].after) = Without(Lines(history[i].before), history[i].arg)

\* C19: in every store reached by add_host, remove_host and replace_content
\* calls, after add_host(h) with h not empty, search_host(h) returns a line
\* that starts with h.
C19_AddedIsFound ==
    \A i \in 1..Len(history) :
        (IsOp(i, "add_host") /\ history[i].arg # <<>>) =>
            LET r == search_host(history[i].after, history[i].arg)
            IN  r.some /\ startswith(r.val, history[i].arg)

----------------------------------------------------------------------------
(* One resolver driven on its own: any sequence of get_host calls *)

H_v == <<"v">>

ResolverKinds == {"Netbox", "OpenstackBrowser", "KnownHosts"}

ResolverPartials == {H_a, H_ab, H_v}

\* what the listing URL of a snapshot resolver answers
ListingResponses ==
    {Failed, Body(<<>>), Body(H_ac \o <<NL>> \o H_ab \o <<NL>>),
     Body(H_ab \o <<",", "x", " ", "k", NL>>), Body(H_ab \o <<" ", NL>>)}

\* the cache the resolver under test was built with
OwnCache == IF lone_resolver.owned THEN Owned(cachefile) ELSE NoCache

ResolverInit ==
    /\ WmIdle
    /\ lone_resolver \in [kind : ResolverKinds, owned : BOOLEAN]
    /\ cachefile \in InitialCache
    /\ history = <<>>
    /\ captured_stream = 0
    /\ stream = 0

GetHost(call, r) ==
    /\ Len(history) < MaxCalls
    /\ history' = Append(history, call)
    /\ cachefile' = r.file
    /\ UNCHANGED <<wmVars, lone_resolver, captured_stream, stream>>

NetboxGetHost ==
    /\ lone_resolver.kind = "Netbox"
    /\ \E partial \in ResolverPartials, physResponse \in PhysicalResponses,
          vmResponse \in VmResponses :
        LET r == NetboxResolver_get_host(OwnCache, partial, physResponse, vmResponse)
        IN  GetHost([op |-> "Netbox", arg |-> partial, before |-> cachefile,
                     after |-> r.file, raised |-> r.raised, res |-> r.res,
                     physical |-> r.physical, vm |-> r.vm], r)

OpenstackBrowserGetHost ==
    /\ lone_resolver.kind = "OpenstackBrowser"
    /\ \E partial \in ResolverPartials, response \in ListingResponses :
        LET r == OpenstackBrowserResolver_get_host(OwnCache, partial, response)
        IN  GetHost([op |-> "OpenstackBrowser", arg |-> partial,
                     before |-> cachefile, after |-> r.file, raised |-> r.raised,
                     res |-> r.res, response |-> response], r)

KnownHostsGetHost ==
    /\ lone_resolver.kind = "KnownHosts"
    /\ \E partial \in ResolverPartials, response \in ListingResponses :
        LET r == KnownHostsResolver_get_host(OwnCache, partial, response)
        IN  GetHost([op |-> "KnownHosts", arg |-> partial,
                     before |-> cachefile, after |-> r.file, raised |-> r.raised,
                     res |-> r.res, response |-> response], r)

ResolverNext ==
    \/ NetboxGetHost
    \/ OpenstackBrowserGetHost
    \/ KnownHostsGetHost

SpecResolver == ResolverInit /\ [][ResolverNext]_vars

----------------------------------------------------------------------------
(* Properties of the resolvers *)

\* the i-th call is a NetboxResolver.get_host on a resolver that owns a cache
OwnedNetboxCall(i) == history[i].op = "Netbox" /\ lone_resolver.owned

\* the i-th call found its answer in the cache
CacheHit(i) == Truthy(search_host(history[i].before, history[i].arg))

\* C11: when NetboxResolver owns a cache and search_host(partial) finds a
\* hostname in it, get_host returns that hostname, queries neither the
\* physical-device nor the virtual-machine endpoint, and leaves the cache
\* file unchanged.
C11_CacheHitNoNetwork ==
    \A i \in 1..Len(history) :
        (OwnedNetboxCall(i) /\ CacheHit(i)) =>
            /\ ~history[i].raised
            /\ history[i].res = search_host(history[i].before, history[i].arg)
            /\ history[i].physical = 0
            /\ history[i].vm = 0
            /\ history[i].after = history[i].before

C11_Witness ==
    \E i \in 1..Len(history) :
        /\ OwnedNetboxCall(i)
        /\ CacheHit(i)
        /\ history[i].arg = H_a
        /\ history[i].res = Some(H_ab)

\* the i-th call returned a hostname it got from Netbox
FromNetwork(i) ==
    /\ OwnedNetboxCall(i)
    /\ ~history[i].raised
    /\ Truthy(history[i].res)
    /\ history[i].physical = 1

\* the i-th call repeats, with the same partial, a call answered by Netbox
Repeats(i) ==
    /\ i > 1
    /\ OwnedNetboxCall(i)
    /\ FromNetwork(i - 1)
    /\ history[i].arg = history[i - 1].arg

\* the i-th call was answered from the cache, with no request to Netbox
FromCache(i) ==
    /\ ~history[i].raised
    /\ Truthy(history[i].res)
    /\ history[i].res = search_host(history[i].before, history[i].arg)
    /\ history[i].physical = 0
    /\ history[i].vm = 0

\* C17 as stated: with an owned cache, once get_host(p) has returned a
\* hostname obtained from the network, the following get_host(p) is answered
\* from the cache with no network request, for every p and every hostname.
C17_SecondCallFromCache ==
    \A i \in 1..Len(history) : Repeats(i) => FromCache(i)

\* C17 amended: the following get_host(p) is answered from the cache with no
\* network request when the hostname the network returned starts with p, and
\* asks the network again when it does not.
C17_SecondCallFromCacheOnPrefix ==
    \A i \in 1..Len(history) :
        Repeats(i) =>
            IF startswith(history[i - 1].res.val, history[i].arg)
            THEN FromCache(i) /\ history[i].res = history[i - 1].res
            ELSE history[i].physical = 1

C17_Witness ==
    \E i \in 1..Len(history) :
        /\ Repeats(i)
        /\ history[i].arg = H_a
        /\ history[i - 1].before = NoFile
        /\ history[i - 1].res = Some(H_ab)
        /\ FromCache(i)

\* what a resolver of the same class that owns no cache returns for the
\* partial and the listing of the i-th call
Cacheless(i) ==
    IF history[i].op = "OpenstackBrowser"
    THEN OpenstackBrowserResolver_get_host(NoCache, history[i].arg,
                                           history[i].response)
    ELSE KnownHostsResolver_get_host(NoCache, history[i].arg, history[i].response)

\* C20: on a cache miss, for the same fetched listing and the same partial,
\* OpenstackBrowserResolver.get_host and KnownHostsResolver.get_host return
\* the same result whether the resolver owns a cache or owns none.
C20_SameResultWithOrWithoutCache ==
    \A i \in 1..Len(history) :
        (/\ history[i].op \in {"OpenstackBrowser", "KnownHosts"}
         /\ lone_resolver.owned
         /\ ~CacheHit(i)) =>
            /\ history[i].raised = Cacheless(i).raised
            /\ history[i].res = Cacheless(i).res

----------------------------------------------------------------------------
(* One Tee driven on its own: any sequence of write calls.  captured_stream *)
(* and stream hold the number of characters buffered and forwarded.         *)

MAX_CAPTURED_STREAM_SIZE == 1048576

\* len(s) of the texts written
WriteSizes == {0, 1, 1024, MAX_CAPTURED_STREAM_SIZE - 1, MAX_CAPTURED_STREAM_SIZE}

\* Tee(stream=...)
TeeInit ==
    /\ WmIdle
    /\ lone_resolver = [kind |-> "none", owned |-> FALSE]
    /\ cachefile = NoFile
    /\ history = <<>>
    /\ captured_stream = 0
    /\ stream = 0

\* Tee.write(s) with len(s) = size
write(size) ==
    /\ Len(history) < MaxWrites
    /\ captured_stream' = IF captured_stream <= MAX_CAPTURED_STREAM_SIZE
                          THEN captured_stream + size
                          ELSE captured_stream
    /\ stream' = stream + size
    /\ history' = Append(history, [op |-> "write", arg |-> size,
                                   before |-> captured_stream])
    /\ UNCHANGED <<wmVars, lone_resolver, cachefile>>

TeeWrite == \E size \in WriteSizes : write(size)

TeeNext == TeeWrite

SpecTee == TeeInit /\ [][TeeNext]_vars

RECURSIVE Written(_)
\* the characters handed to the first k write calls
Written(k) == IF k = 0 THEN 0 ELSE Written(k - 1) + history[k].arg

\* C18: after any sequence of Tee.write calls, captured_stream is never
\* longer than MAX_CAPTURED_STREAM_SIZE, while every write is forwarded in
\* full to the underlying stream.
C18_CapturedWithinCap ==
    /\ captured_stream <= MAX_CAPTURED_STREAM_SIZE
    /\ stream = Written(Len(history))

----------------------------------------------------------------------------
(* try_ssh driven on its own.  One activation of the function takes two     *)
(* steps: up to the return of subprocess.run, and from there to the end of  *)
(* the activation, which either ends the call or, after a confirmed key     *)
(* removal, calls try_ssh again with the hostname it launched.  The call    *)
(* stack is not modelled; history holds the ssh result being handled;       *)
(* launches and confirms keep the first MaxLaunches activations.            *)

TryHosts == {H_a, H_ab}

\* in_known_hosts(hostname)
in_known_hosts(h, store) == h \in store

\* any(msg in stderr for msg in (...)), lines 269-272
unresolved_markers(stderr) == stderr \cap RESOLVE_MARKERS # {}

TrySshInit ==
    /\ pc = "try_ssh"
    /\ argv = [hostname |-> None, sshargs |-> <<>>, no_caches |-> FALSE,
               flush_caches |-> FALSE]
    /\ netbox_config = FALSE
    /\ files = [n \in CacheNames |-> NoFile]
    /\ trustStore \in SUBSET TryHosts
    /\ user \in {None, Some(H_u)}
    /\ hostname \in TryHosts
    /\ resolvers = <<>>
    /\ idx = 1
    /\ full_hostname = Unbound
    /\ launches = <<>>
    /\ calls = <<>>
    /\ confirms = <<>>
    /\ outcome = "running"
    /\ exitCode = -1
    /\ lone_resolver \in [kind : {"direct"}, owned : BOOLEAN]
    /\ cachefile \in (IF lone_resolver.owned THEN InitialCache ELSE {NoFile})
    /\ history = <<>>
    /\ captured_stream = 0
    /\ stream = 0

\* lines 247-259: the cache lookup and the ssh run
TryLaunch ==
    /\ pc = "try_ssh"
    /\ \E r \in SshResults :
        LET maybe_host == IF lone_resolver.owned
                          THEN search_host(cachefile, hostname) ELSE None
            from_cache == lone_resolver.owned /\ Truthy(maybe_host)
            h == IF from_cache THEN maybe_host.val ELSE hostname
        IN  /\ hostname' = h
            /\ history' = <<[rc |-> r.rc, stderr |-> r.stderr,
                             from_cache |-> from_cache]>>
            /\ launches' = IF Len(launches) < MaxLaunches
                           THEN Append(launches,
                                    [target |-> ssh_target(user, h),
                                     args |-> <<"hostname">>, rc |-> r.rc,
                                     stderr |-> r.stderr])
                           ELSE launches
    /\ pc' = "ran"
    /\ UNCHANGED <<argv, netbox_config, files, trustStore, user, resolvers, idx,
                   full_hostname, calls, confirms, outcome, exitCode,
                   lone_resolver, cachefile, captured_stream, stream>>

\* the call ends: return (a hostname or None), raise, or sys.exit(1)
TryEnd(how, ret) ==
    /\ pc' = "returned"
    /\ outcome' = how
    /\ full_hostname' = ret

\* lines 260-299: what try_ssh does with the result of the ssh run
TryHandle ==
    /\ pc = "ran"
    /\ \E answer \in BOOLEAN :
        LET res == history[1]
            unresolved == res.rc # 0 /\ unresolved_markers(res.stderr)
            known == in_known_hosts(hostname, trustStore)
            k == remove_duplicated_key_if_needed(res.stderr, hostname, answer,
                                                 trustStore)
            prompt == IF res.rc = 0 THEN "none"
                      ELSE IF unresolved
                      THEN (IF res.from_cache THEN "cache"
                            ELSE IF known THEN "known_hosts" ELSE "none")
                      ELSE IF k.asked THEN "key" ELSE "none"
            removed == remove_host(cachefile, hostname)
        IN  /\ prompt = "none" => ~answer
            /\ confirms' = IF Len(confirms) < MaxLaunches /\ prompt # "none"
                           THEN Append(confirms, [prompt |-> prompt, answer |-> answer])
                           ELSE confirms
            /\ IF res.rc = 0
               THEN /\ TryEnd("returned", Bound(Some(hostname)))
                    /\ cachefile' = IF lone_resolver.owned
                                    THEN add_host(cachefile, hostname) ELSE cachefile
                    /\ UNCHANGED trustStore
               ELSE IF unresolved /\ res.from_cache
               THEN /\ cachefile' = IF answer /\ ~removed.raised
                                    THEN removed.file ELSE cachefile
                    /\ trustStore' = IF answer /\ ~removed.raised
                                     THEN trustStore \ {hostname} ELSE trustStore
                    /\ TryEnd(IF answer /\ ~removed.raised THEN "exit_1" ELSE "raised",
                              Unbound)
               ELSE IF unresolved /\ known
               THEN /\ trustStore' = IF answer THEN trustStore \ {hostname}
                                     ELSE trustStore
                    /\ TryEnd(IF answer THEN "exit_1" ELSE "raised", Unbound)
                    /\ UNCHANGED cachefile
               ELSE IF unresolved
               THEN /\ TryEnd("returned", Bound(None))
                    /\ UNCHANGED <<cachefile, trustStore>>
               ELSE IF k.removed
               THEN /\ pc' = "try_ssh"
                    /\ trustStore' = k.store
                    /\ UNCHANGED <<outcome, full_hostname, cachefile>>
               ELSE /\ TryEnd("raised", Unbound)
                    /\ UNCHANGED <<cachefile, trustStore>>
    /\ history' = <<>>
    /\ UNCHANGED <<argv, netbox_config, files, user, hostname, resolvers, idx, calls,
                   launches, exitCode, lone_resolver, captured_stream, stream>>

TrySshNext ==
    \/ TryLaunch
    \/ TryHandle

SpecTrySsh == TrySshInit /\ [][TrySshNext]_vars

\* every ssh run and every prompt returns
SpecTrySshFair == SpecTrySsh /\ WF_vars(TryLaunch) /\ WF_vars(TryHandle)

\* C21: every call of try_ssh terminates after a bounded number of ssh
\* launches, whatever ssh returns and whatever the operator answers, provided
\* each ssh run and each prompt returns.
C21_TrySshTerminates == <>(pc = "returned")

====
